---- MODULE Spec2Model ----
(***************************************************************************)
(* Model of the pkg utility packages: the AES-256-GCM helpers of           *)
(* encrypt/encrypt.go (Encrypt, Decrypt, GenerateKey) together with the    *)
(* standard-library primitives they call (AES, GCM, base64.StdEncoding),   *)
(* and the RWMutex-guarded MemoryCache of cache/cache.go.                  *)
(* Bytes are 0..255, byte strings are sequences of bytes, Go strings are   *)
(* sequences of ASCII codes.                                               *)
(***************************************************************************)
EXTENDS Integers, Sequences, FiniteSets, TLC

VARIABLES
    pc,         \* the caller: "idle", "ready" (has a string for Decrypt),
                \* "opened" (Decrypt returned), "failed" (Encrypt failed)
    encPlain,   \* the plaintext given to Encrypt
    encKey,     \* the key given to Encrypt
    encRand,    \* the outcome of the read of rand.Reader, had by Encrypt
                \* if it reads
    encOut,     \* what Encrypt returned
    randReads,  \* number of reads of rand.Reader so far
    wire,       \* the string the caller holds for Decrypt
    wireKind,   \* how the caller obtained it
    wireLen,    \* number of bytes it encodes, -1 when it is not base64 text
    decKey,     \* the key given to Decrypt
    decOut,     \* what Decrypt returned
    sealLog,    \* the Encrypt calls made one after the other, with what
                \* each was given and returned
    gpc,        \* per goroutine: where it is in its call
    garg,       \* per goroutine: the arguments of its call, as they are now
    ggiven,     \* per goroutine: the arguments as the caller passed them
    grand,      \* per goroutine: the outcome of its read of rand.Reader
    gbuf,       \* per buffer returned by make: its bytes
    gtmp,       \* per goroutine: the value of its other local (ciphertext
                \* in Encrypt, data in Decrypt)
    gres,       \* per goroutine: what its call returned
    mu,         \* MemoryCache.mu: the goroutine that holds the write lock
                \* (0 for none) and those that hold a read lock
    cdata,      \* MemoryCache.data
    cpc,        \* per goroutine: where it is in its Get or Set
    ccall,      \* per goroutine: the call it makes
    cres,       \* per goroutine: what its Get returned
    latest,     \* per key: the value of the last Set that took the lock
    seen        \* per goroutine: latest[key] when its Get took the lock

encVars == << pc, encPlain, encKey, encRand, encOut, wire, wireKind, wireLen,
              decKey, decOut >>

goVars == << gpc, garg, ggiven, grand, gbuf, gtmp, gres >>

cacheVars == << mu, cdata, cpc, ccall, cres, latest, seen >>

vars == << encVars, randReads, sealLog, goVars, cacheVars >>

\* ------------------------------------------------------------------------
\* Byte arithmetic
\* ------------------------------------------------------------------------

\* The function f on 1..n as a sequence value (a tuple).
AsSeq(f) == f \o << >>

\* An operator that iterates starts with a test of its argument's length
\* (always of the expected length), so that TLC evaluates the argument
\* before the operator's body and not inside it.

\* a XOR b on 4-bit values, bit by bit.
Xor4(a, b) ==
    ((a + b) % 2)
  + 2 * (((a \div 2) + (b \div 2)) % 2)
  + 4 * (((a \div 4) + (b \div 4)) % 2)
  + 8 * (((a \div 8) + (b \div 8)) % 2)

\* a XOR b for all bytes a, b, tabulated once: XorTable[a + 1][b + 1].
XorTable ==
    AsSeq([a \in 1..256 |->
        AsSeq([b \in 1..256 |->
            16 * Xor4((a - 1) \div 16, (b - 1) \div 16) + Xor4((a - 1) % 16, (b - 1) % 16)])])

\* a XOR b on bytes.
Xor(a, b) == XorTable[a + 1][b + 1]

\* XOR of two byte strings of the same length.

XorBytes(x, y) == AsSeq([i \in 1..Len(x) |-> Xor(x[i], y[i])])

Zeros(n) == AsSeq([i \in 1..n |-> 0])

\* ------------------------------------------------------------------------
\* crypto/aes: the AES-256 block cipher (FIPS 197), as aes.NewCipher(key)
\* with a 32-byte key computes it.
\* ------------------------------------------------------------------------

SBox ==
  <<
       99, 124, 119, 123, 242, 107, 111, 197,  48,   1, 103,  43, 254, 215, 171, 118,
      202, 130, 201, 125, 250,  89,  71, 240, 173, 212, 162, 175, 156, 164, 114, 192,
      183, 253, 147,  38,  54,  63, 247, 204,  52, 165, 229, 241, 113, 216,  49,  21,
        4, 199,  35, 195,  24, 150,   5, 154,   7,  18, 128, 226, 235,  39, 178, 117,
        9, 131,  44,  26,  27, 110,  90, 160,  82,  59, 214, 179,  41, 227,  47, 132,
       83, 209,   0, 237,  32, 252, 177,  91, 106, 203, 190,  57,  74,  76,  88, 207,
      208, 239, 170, 251,  67,  77,  51, 133,  69, 249,   2, 127,  80,  60, 159, 168,
       81, 163,  64, 143, 146, 157,  56, 245, 188, 182, 218,  33,  16, 255, 243, 210,
      205,  12,  19, 236,  95, 151,  68,  23, 196, 167, 126,  61, 100,  93,  25, 115,
       96, 129,  79, 220,  34,  42, 144, 136,  70, 238, 184,  20, 222,  94,  11, 219,
      224,  50,  58,  10,  73,   6,  36,  92, 194, 211, 172,  98, 145, 149, 228, 121,
      231, 200,  55, 109, 141, 213,  78, 169, 108,  86, 244, 234, 101, 122, 174,   8,
      186, 120,  37,  46,  28, 166, 180, 198, 232, 221, 116,  31,  75, 189, 139, 138,
      112,  62, 181, 102,  72,   3, 246,  14,  97,  53,  87, 185, 134, 193,  29, 158,
      225, 248, 152,  17, 105, 217, 142, 148, 155,  30, 135, 233, 206,  85,  40, 223,
      140, 161, 137,  13, 191, 230,  66, 104,  65, 153,  45,  15, 176,  84, 187,  22
    >>

SubByte(b) == SBox[b + 1]

\* Multiplication by x in GF(2^8) modulo x^8 + x^4 + x^3 + x + 1.
XTime(a) == IF a >= 128 THEN Xor((2 * a) % 256, 27) ELSE 2 * a

SubWord(w) == << SubByte(w[1]), SubByte(w[2]), SubByte(w[3]), SubByte(w[4]) >>

RotWord(w) == << w[2], w[3], w[4], w[1] >>

\* What is XORed into word i - 8 to give word i of the key schedule for
\* Nk = 8 (i counts from 0), temp being word i - 1.
KeyMix(temp, i) ==
    IF i % 8 = 0
      THEN XorBytes(SubWord(RotWord(temp)), << 2 ^ ((i \div 8) - 1), 0, 0, 0 >>)
    ELSE IF i % 8 = 4
      THEN SubWord(temp)
    ELSE temp

\* The key schedule w (words 0 .. Len(w) - 1) with m more words.
RECURSIVE AddWords(_, _)
AddWords(w, m) ==
    IF Len(w) < 8 \/ m = 0
      THEN w
      ELSE AddWords(Append(w, XorBytes(w[Len(w) - 7], KeyMix(w[Len(w)], Len(w)))),
                    m - 1)

\* The key schedule w filled up to 60 words, 8 words at a time.
RECURSIVE ExpandKey(_)
ExpandKey(w) ==
    IF Len(w) >= 60
      THEN SubSeq(w, 1, 60)
      ELSE ExpandKey(AddWords(w, 8))

\* The key schedule of a 32-byte key: 60 words of 4 bytes.
KeySchedule(key) ==
    ExpandKey(AsSeq([i \in 1..8 |->
        << key[4*i - 3], key[4*i - 2], key[4*i - 1], key[4*i] >>]))

\* The 16 bytes of round key r (0..14).
RoundKey(w, r) ==
    AsSeq([i \in 1..16 |-> w[4*r + ((i - 1) \div 4) + 1][((i - 1) % 4) + 1]])

\* State byte (row r, column c) is s[r + 4c + 1]. After SubBytes and
\* ShiftRows, which rotates row r left by r columns, it is:
SubShift(s, r, c) == SubByte(s[r + 4 * ((c + r) % 4) + 1])

\* The state after SubBytes and ShiftRows.
ShiftSub(s) ==
    AsSeq([i \in 1..16 |-> SubShift(s, (i - 1) % 4, (i - 1) \div 4)])

\* MixColumns and AddRoundKey: row r of a column is 2 a(r) + 3 a(r+1) +
\* a(r+2) + a(r+3) over the rows of that column, where 3a = 2a + a.
MixColumns(s, rk) ==
    AsSeq([i \in 1..16 |->
        LET col == 4 * ((i - 1) \div 4)
            row == (i - 1) % 4
        IN  Xor(Xor(Xor(XTime(s[col + row + 1]),
                        Xor(XTime(s[col + ((row + 1) % 4) + 1]),
                            s[col + ((row + 1) % 4) + 1])),
                    Xor(s[col + ((row + 2) % 4) + 1], s[col + ((row + 3) % 4) + 1])),
                rk[i])])

\* One of rounds 1..13: SubBytes, ShiftRows, MixColumns, AddRoundKey.
Round(s, rk) == MixColumns(ShiftSub(s), rk)

\* The last round: SubBytes, ShiftRows, AddRoundKey.
FinalRound(s, rk) == XorBytes(ShiftSub(s), rk)

\* Rounds r .. 14 on the state s.
RECURSIVE Rounds(_, _, _)
Rounds(s, w, r) ==
    IF Len(s) # 16 \/ r = 14
      THEN FinalRound(s, RoundKey(w, 14))
      ELSE Rounds(Round(s, RoundKey(w, r)), w, r + 1)

\* block.Encrypt: one 16-byte block under the key schedule w (Nr = 14).
EncryptBlock(w, blk) == Rounds(XorBytes(blk, RoundKey(w, 0)), w, 1)

\* ------------------------------------------------------------------------
\* crypto/cipher: GCM over a 128-bit block cipher with a 12-byte nonce and a
\* 16-byte tag (NIST SP 800-38D), as cipher.NewGCM(block) computes it.
\* ------------------------------------------------------------------------

gcmTagSize == 16
gcmStandardNonceSize == 12

\* A 128-bit block shifted right by one bit (bit 0 is the top bit of byte 1).
ShiftRight(v) ==
    AsSeq([i \in 1..16 |-> (v[i] \div 2) + (IF i > 1 THEN 128 * (v[i - 1] % 2) ELSE 0)])

\* sh, with 0xe1 added into its top byte if carry is 1.
Reduce(sh, carry) ==
    IF carry = 1 THEN [sh EXCEPT ![1] = Xor(@, 225)] ELSE sh

\* v * x in GF(2^128) modulo x^128 + x^7 + x^2 + x + 1 (bit-reflected, so
\* multiplying by x shifts right and reduces with 0xe1 in the top byte).
MulX(v) == Reduce(ShiftRight(v), v[16] % 2)

\* v * x^k.
RECURSIVE MulXK(_, _)
MulXK(v, k) ==
    IF Len(v) # 16 \/ k = 0 THEN v ELSE MulXK(MulX(v), k - 1)

\* The products of every element of tbl with e, after tbl itself.
WithMultiple(tbl, e) ==
    IF Len(e) # 16 THEN tbl ELSE
    tbl \o AsSeq([i \in 1..Len(tbl) |-> XorBytes(tbl[i], e)])

\* tbl doubled k + 1 times: with v * x^k, then v * x^(k-1), ..., then v.
RECURSIVE Products(_, _, _)
Products(tbl, v, k) ==
    IF Len(tbl) = 0 \/ k < 0
      THEN tbl
      ELSE Products(WithMultiple(tbl, MulXK(v, k)), v, k - 1)

\* The 256 products u * v for the polynomials u of degree below 8, indexed
\* by u as a byte plus one (the top bit of the byte is the coefficient of
\* x^0).
ByteProducts(v) == Products(<< Zeros(16) >>, v, 7)

\* tbls with the byte products of v, v * x^8, ... up to 16 tables.
RECURSIVE ByteTables(_, _)
ByteTables(tbls, v) ==
    IF Len(v) # 16 \/ Len(tbls) >= 16
      THEN tbls
      ELSE ByteTables(Append(tbls, ByteProducts(v)), MulXK(v, 8))

\* The multiples of the hash subkey h that NewGCM tabulates:
\* ProductTable(h)[j][u + 1] is h * x^(8(j-1)) * u, the contribution of the
\* value u of byte j of a multiplier.
ProductTable(h) == ByteTables(<< >>, h)

\* aes.NewCipher(key) for a 32-byte key: the block cipher is its key schedule.
NewCipher(key) == KeySchedule(key)

\* cipher.NewGCM(block): the cipher and the table of H = E(0^128).
NewGCM(block) ==
    [cipher |-> block, productTable |-> ProductTable(EncryptBlock(block, Zeros(16)))]

\* The 32-byte keys the model draws: all zero, and 1, 2, ..., 32.
ValidKeys == << Zeros(32), AsSeq([i \in 1..32 |-> i]) >>

\* The GCM objects of ValidKeys, computed once.
ValidKeyGCMs == AsSeq([i \in 1..Len(ValidKeys) |-> NewGCM(NewCipher(ValidKeys[i]))])

\* x * h in GF(2^128), t being the table of h: the sum over the bytes of x
\* of their contributions.
SumOf16(e) ==
    AsSeq([i \in 1..16 |->
        Xor(Xor(Xor(Xor(e[1][i], e[2][i]), Xor(e[3][i], e[4][i])),
                Xor(Xor(e[5][i], e[6][i]), Xor(e[7][i], e[8][i]))),
            Xor(Xor(Xor(e[9][i], e[10][i]), Xor(e[11][i], e[12][i])),
                Xor(Xor(e[13][i], e[14][i]), Xor(e[15][i], e[16][i]))))])

GMul(t, x) ==
    IF Len(x) # 16 THEN x ELSE
    SumOf16(AsSeq([j \in 1..16 |-> t[j][x[j] + 1]]))

\* data zero-padded to a whole number of 16-byte blocks.
PadBlocks(data) == data \o Zeros((16 - (Len(data) % 16)) % 16)

\* n as 8 big-endian bytes (n < 2^31).
BE64(n) == << 0, 0, 0, 0, (n \div 16777216) % 256, (n \div 65536) % 256,
              (n \div 256) % 256, n % 256 >>

\* n as 4 big-endian bytes.
BE32(n) == << (n \div 16777216) % 256, (n \div 65536) % 256, (n \div 256) % 256, n % 256 >>

RECURSIVE GHashBlocks(_, _, _, _)
GHashBlocks(t, y, data, i) ==
    IF Len(y) = 16 /\ 16 * i <= Len(data)
      THEN GHashBlocks(t, GMul(t, XorBytes(y, SubSeq(data, 16 * i - 15, 16 * i))), data, i + 1)
      ELSE y

\* GHASH_H over the (empty) additional data, the ciphertext and their bit
\* lengths, t being the table of H.
GHash(t, ct) == GHashBlocks(t, Zeros(16), PadBlocks(ct) \o BE64(0) \o BE64(8 * Len(ct)), 1)

\* The counter block with 32-bit counter value c for a 12-byte nonce (c stays
\* far below 2^32: a message has a few blocks).
CounterBlock(nonce, c) == nonce \o BE32(c)

\* The first n bytes of the CTR key stream, counters 2, 3, ...
RECURSIVE KeyStream(_, _, _, _)
KeyStream(w, nonce, n, acc) ==
    IF Len(acc) >= n
      THEN SubSeq(acc, 1, n)
      ELSE KeyStream(w, nonce, n,
                     acc \o EncryptBlock(w, CounterBlock(nonce, 2 + (Len(acc) \div 16))))

\* The tag of ciphertext ct under nonce.
gcmAuth(g, nonce, ct) ==
    XorBytes(GHash(g.productTable, ct), EncryptBlock(g.cipher, CounterBlock(nonce, 1)))

\* The ciphertext ct followed by its tag.
WithTag(g, nonce, ct) == ct \o gcmAuth(g, nonce, ct)

\* gcm.Seal(nil, nonce, plaintext, nil): ciphertext followed by the tag.
gcmSeal(g, nonce, plaintext) ==
    WithTag(g, nonce, XorBytes(plaintext, KeyStream(g.cipher, nonce, Len(plaintext), << >>)))

\* An Open that decrypts without comparing the tag.
gcmOpenUnchecked(g, nonce, ciphertext) ==
    IF Len(ciphertext) < gcmTagSize
      THEN [ok |-> FALSE, plaintext |-> << >>]
      ELSE LET n  == Len(ciphertext) - gcmTagSize
               ct == SubSeq(ciphertext, 1, n)
           IN  [ok |-> TRUE,
                plaintext |-> XorBytes(ct, KeyStream(g.cipher, nonce, n, << >>))]

\* gcm.Open(nil, nonce, ciphertext, nil): [ok, plaintext]; the plaintext is
\* released only when the tag compares equal.
gcmOpen(g, nonce, ciphertext) ==
    IF Len(ciphertext) < gcmTagSize
      THEN [ok |-> FALSE, plaintext |-> << >>]
      ELSE LET n   == Len(ciphertext) - gcmTagSize
               ct  == SubSeq(ciphertext, 1, n)
               tag == SubSeq(ciphertext, n + 1, Len(ciphertext))
           IN  IF gcmAuth(g, nonce, ct) # tag
                 THEN [ok |-> FALSE, plaintext |-> << >>]
                 ELSE [ok |-> TRUE,
                       plaintext |-> XorBytes(ct, KeyStream(g.cipher, nonce, n, << >>))]

\* ------------------------------------------------------------------------
\* encoding/base64: StdEncoding (standard alphabet, '=' padding, not strict).
\* A string is a sequence of ASCII codes.
\* ------------------------------------------------------------------------

PadChar == 61
LF == 10
CR == 13

\* encodeStd[i]: 'A'..'Z', 'a'..'z', '0'..'9', '+', '/'.
EncodeChar(i) ==
    IF i < 26 THEN 65 + i
    ELSE IF i < 52 THEN 97 + (i - 26)
    ELSE IF i < 62 THEN 48 + (i - 52)
    ELSE IF i = 62 THEN 43 ELSE 47

\* decodeMap[c]: the 6-bit value of c, or 255 for a byte outside the alphabet.
DecodeMap(c) ==
    IF c >= 65 /\ c <= 90 THEN c - 65
    ELSE IF c >= 97 /\ c <= 122 THEN c - 97 + 26
    ELSE IF c >= 48 /\ c <= 57 THEN c - 48 + 52
    ELSE IF c = 43 THEN 62
    ELSE IF c = 47 THEN 63
    ELSE 255

\* StdEncoding.EncodeToString(src): every 3 bytes give 4 characters; a last
\* group of 1 or 2 bytes gives 2 or 3 characters and '=' padding.
EncodeToString(src) ==
    LET n == Len(src)
        byte(i) == IF i <= n THEN src[i] ELSE 0
    IN  AsSeq([p \in 1..(((n + 2) \div 3) * 4) |->
            LET g   == (p - 1) \div 4
                k   == (p - 1) % 4
                val == 65536 * byte(3*g + 1) + 256 * byte(3*g + 2) + byte(3*g + 3)
            IN  IF 3*g + k > n
                  THEN PadChar
                  ELSE EncodeChar((val \div (64 ^ (3 - k))) % 64)])

\* A decoder that takes a line break for a character outside the alphabet.
NeverNewline(c) == FALSE

\* The decoder skips '\r' and '\n' wherever they occur.
IsNewline(c) == c \in {LF, CR}

\* The index after the '\r' and '\n' characters that start at index si
\* (si counts the characters already read).
RECURSIVE SkipNewlines(_, _)
SkipNewlines(src, si) ==
    IF si < Len(src) /\ IsNewline(src[si + 1])
      THEN SkipNewlines(src, si + 1)
      ELSE si

\* The bytes of a quantum of dlen 6-bit values (dlen - 1 bytes); the bits
\* left over in the last value are dropped without a check (not strict).
QuantumBytes(dbuf, dlen) ==
    LET d(i) == IF i <= Len(dbuf) THEN dbuf[i] ELSE 0
        val  == 262144 * d(1) + 4096 * d(2) + 64 * d(3) + d(4)
    IN  SubSeq(<< val \div 65536, (val \div 256) % 256, val % 256 >>, 1, dlen - 1)

CorruptInput(si) == [si |-> si, bytes |-> << >>, err |-> TRUE]

\* Encoding.decodeQuantum(dst, src, si): reads up to 4 alphabet characters
\* from index si, skipping '\r' and '\n'; j is the number read so far.
RECURSIVE decodeQuantum(_, _, _, _)
decodeQuantum(src, si, j, dbuf) ==
    IF j = 4
      THEN [si |-> si, bytes |-> QuantumBytes(dbuf, 4), err |-> FALSE]
    ELSE IF si = Len(src)
      THEN IF j = 0
             THEN [si |-> si, bytes |-> << >>, err |-> FALSE]
             ELSE CorruptInput(si)
    ELSE LET in == src[si + 1]
         IN  IF DecodeMap(in) # 255
               THEN decodeQuantum(src, si + 1, j + 1, Append(dbuf, DecodeMap(in)))
             ELSE IF IsNewline(in)
               THEN decodeQuantum(src, si + 1, j, dbuf)
             ELSE IF in # PadChar
               THEN CorruptInput(si + 1)
             ELSE IF j < 2
               THEN CorruptInput(si + 1)
             ELSE IF j = 2
               THEN LET s2 == SkipNewlines(src, si + 1)
                    IN  IF s2 = Len(src) \/ src[s2 + 1] # PadChar
                          THEN CorruptInput(s2)
                          ELSE LET s3 == SkipNewlines(src, s2 + 1)
                               IN  [si |-> s3, bytes |-> QuantumBytes(dbuf, 2),
                                    err |-> s3 < Len(src)]
             ELSE LET s3 == SkipNewlines(src, si + 1)
                  IN  [si |-> s3, bytes |-> QuantumBytes(dbuf, 3), err |-> s3 < Len(src)]

\* Encoding.Decode: quantum after quantum until the input ends or one fails.
RECURSIVE Decode(_, _, _)
Decode(src, si, acc) ==
    IF Len(acc) >= 0 /\ si < Len(src)
      THEN LET q == decodeQuantum(src, si, 0, << >>)
           IN  IF q.err
                 THEN [data |-> acc \o q.bytes, err |-> TRUE]
                 ELSE Decode(src, q.si, acc \o q.bytes)
      ELSE [data |-> acc, err |-> FALSE]

\* StdEncoding.DecodeString(s): the bytes decoded so far and whether it failed.
DecodeString(s) == Decode(s, 0, << >>)

\* ------------------------------------------------------------------------
\* encrypt/encrypt.go
\* ------------------------------------------------------------------------

NoErr == "nil"
ErrKeyLength == "key must be 32 bytes for AES-256"
ErrNonce == "nonce generation failed"
ErrBase64 == "base64 decode failed"
ErrTooShort == "ciphertext too short"
ErrDecrypt == "decryption failed"
ErrKeyGen == "key generation failed"

\* A nil []byte; it has no bytes, like the empty slice.
NilBytes == << >>

\* gcm.NonceSize() of the GCM that cipher.NewGCM returns.
NonceSize == gcmStandardNonceSize

\* aes.NewCipher(key) then cipher.NewGCM(block), for a 32-byte key (neither
\* fails for that length).
NewAEAD(key) ==
    IF \E i \in 1..Len(ValidKeys) : ValidKeys[i] = key
      THEN ValidKeyGCMs[CHOOSE i \in 1..Len(ValidKeys) : ValidKeys[i] = key]
      ELSE NewGCM(NewCipher(key))

\* io.ReadFull(rand.Reader, buf) is modelled by its outcome rnd:
\* [ok |-> TRUE, bytes |-> the Len(buf) bytes read] or [ok |-> FALSE].

\* An Encrypt that appends the nonce after the sealed bytes.
EncryptNonceLast(plaintext, key, rnd) ==
    IF Len(key) # 32
      THEN [str |-> << >>, err |-> ErrKeyLength, read |-> FALSE]
    ELSE IF ~rnd.ok
      THEN [str |-> << >>, err |-> ErrNonce, read |-> TRUE]
    ELSE LET nonce      == rnd.bytes
             ciphertext == gcmSeal(NewAEAD(key), nonce, plaintext)
             result     == ciphertext \o nonce
         IN  [str |-> EncodeToString(result), err |-> NoErr, read |-> TRUE]

\* An Encrypt that seals under the nonce buffer as make returned it, all
\* zero, whatever was read.
EncryptZeroNonce(plaintext, key, rnd) ==
    IF Len(key) # 32
      THEN [str |-> << >>, err |-> ErrKeyLength, read |-> FALSE]
    ELSE IF ~rnd.ok
      THEN [str |-> << >>, err |-> ErrNonce, read |-> TRUE]
    ELSE LET nonce      == Zeros(NonceSize)
             ciphertext == gcmSeal(NewAEAD(key), nonce, plaintext)
             result     == nonce \o ciphertext
         IN  [str |-> EncodeToString(result), err |-> NoErr, read |-> TRUE]

\* Encrypt(plaintext, key): the returned string and error, and whether
\* rand.Reader was read.  An error is named by the message Encrypt or
\* Decrypt puts in front of its cause.
Encrypt(plaintext, key, rnd) ==
    IF Len(key) # 32
      THEN [str |-> << >>, err |-> ErrKeyLength, read |-> FALSE]
    ELSE IF ~rnd.ok
      THEN [str |-> << >>, err |-> ErrNonce, read |-> TRUE]
    ELSE LET nonce      == rnd.bytes
             ciphertext == gcmSeal(NewAEAD(key), nonce, plaintext)
             result     == nonce \o ciphertext
         IN  [str |-> EncodeToString(result), err |-> NoErr, read |-> TRUE]

\* The steps of Decrypt after the key check and the decoding, with the
\* length test and the split as parameters: data is too short when
\* tooShort, and the sealed bytes start at index from.
OpenDecoded(data, key, tooShort, from, bestEffort) ==
    IF tooShort
      THEN [plaintext |-> NilBytes, err |-> ErrTooShort]
    ELSE LET nonce      == SubSeq(data, 1, NonceSize)
             ciphertext == SubSeq(data, from, Len(data))
             res        == gcmOpen(NewAEAD(key), nonce, ciphertext)
         IN  IF ~res.ok
               THEN [plaintext |-> IF bestEffort
                                     THEN gcmOpenUnchecked(NewAEAD(key), nonce,
                                                           ciphertext).plaintext
                                     ELSE NilBytes,
                     err |-> ErrDecrypt]
               ELSE [plaintext |-> res.plaintext, err |-> NoErr]

\* A Decrypt that drops one byte too many when it splits off the nonce.
DecryptSkipByte(ciphertextB64, key) ==
    IF Len(key) # 32
      THEN [plaintext |-> NilBytes, err |-> ErrKeyLength]
    ELSE LET dec == DecodeString(ciphertextB64)
         IN  IF dec.err
               THEN [plaintext |-> NilBytes, err |-> ErrBase64]
               ELSE OpenDecoded(dec.data, key, Len(dec.data) < NonceSize,
                                NonceSize + 2, FALSE)

\* A Decrypt that decodes the string before it looks at the key.
DecryptDecodeFirst(ciphertextB64, key) ==
    LET dec == DecodeString(ciphertextB64)
    IN  IF dec.err
          THEN [plaintext |-> NilBytes, err |-> ErrBase64]
        ELSE IF Len(key) # 32
          THEN [plaintext |-> NilBytes, err |-> ErrKeyLength]
        ELSE OpenDecoded(dec.data, key, Len(dec.data) < NonceSize,
                         NonceSize + 1, FALSE)

\* A Decrypt whose length test is off by one (<= for <).
DecryptOffByOne(ciphertextB64, key) ==
    IF Len(key) # 32
      THEN [plaintext |-> NilBytes, err |-> ErrKeyLength]
    ELSE LET dec == DecodeString(ciphertextB64)
         IN  IF dec.err
               THEN [plaintext |-> NilBytes, err |-> ErrBase64]
               ELSE OpenDecoded(dec.data, key, Len(dec.data) <= NonceSize,
                                NonceSize + 1, FALSE)

\* A Decrypt that returns what it decrypted along with the error.
DecryptBestEffort(ciphertextB64, key) ==
    IF Len(key) # 32
      THEN [plaintext |-> NilBytes, err |-> ErrKeyLength]
    ELSE LET dec == DecodeString(ciphertextB64)
         IN  IF dec.err
               THEN [plaintext |-> NilBytes, err |-> ErrBase64]
               ELSE OpenDecoded(dec.data, key, Len(dec.data) < NonceSize,
                                NonceSize + 1, TRUE)

\* Decrypt(ciphertextB64, key): the returned bytes and error.
Decrypt(ciphertextB64, key) ==
    IF Len(key) # 32
      THEN [plaintext |-> NilBytes, err |-> ErrKeyLength]
    ELSE LET dec == DecodeString(ciphertextB64)
             data == dec.data
         IN  IF dec.err
               THEN [plaintext |-> NilBytes, err |-> ErrBase64]
             ELSE IF Len(data) < NonceSize
               THEN [plaintext |-> NilBytes, err |-> ErrTooShort]
             ELSE LET nonce      == SubSeq(data, 1, NonceSize)
                      ciphertext == SubSeq(data, NonceSize + 1, Len(data))
                      res        == gcmOpen(NewAEAD(key), nonce, ciphertext)
                  IN  IF ~res.ok
                        THEN [plaintext |-> NilBytes, err |-> ErrDecrypt]
                        ELSE [plaintext |-> res.plaintext, err |-> NoErr]

\* GenerateKey(): 32 bytes read from rand.Reader, or the error.
GenerateKey(rnd) ==
    IF ~rnd.ok
      THEN [key |-> NilBytes, err |-> ErrKeyGen]
      ELSE [key |-> rnd.bytes, err |-> NoErr]

\* ------------------------------------------------------------------------
\* A caller of Encrypt and Decrypt
\* ------------------------------------------------------------------------

\* Longest prefix of Message used as a plaintext, besides Message itself.
MaxPlainLen == 2

\* Longest raw byte string encoded and handed to Decrypt.
MaxRawLen == 29

\* "hello"
Message == << 104, 101, 108, 108, 111 >>

Plaintexts == { SubSeq(Message, 1, m) : m \in 0..MaxPlainLen } \cup { Message }

InvalidKeys == { << >>, Zeros(16), Zeros(31), Zeros(33) }

Keys == { ValidKeys[m] : m \in 1..Len(ValidKeys) } \cup InvalidKeys

Nonces == { Zeros(12), AsSeq([m \in 1..12 |-> 16 * m + 3]) }

\* The outcomes of io.ReadFull(rand.Reader, buf) for a 12-byte buf.
NonceReads ==
    { [ok |-> FALSE, bytes |-> << >>] }
        \cup { [ok |-> TRUE, bytes |-> m] : m \in Nonces }

None == << >>

NoResult == [err |-> "none"]

RawBytes(m) == AsSeq([q \in 1..m |-> (37 * q + 11) % 256])

\* d with bit number m flipped (bit 0 is the low bit of the first byte).
FlipBitAt(d, m) ==
    [d EXCEPT ![(m \div 8) + 1] = Xor(@, 2 ^ (m % 8))]

\* str with the character ch inserted after its first m characters.
InsertAt(str, m, ch) ==
    SubSeq(str, 1, m) \o << ch >> \o SubSeq(str, m + 1, Len(str))

\* str written in the URL-safe alphabet: '-' for '+' and '_' for '/'.
ToURLSafe(str) ==
    AsSeq([m \in 1..Len(str) |->
        IF str[m] = 43 THEN 45 ELSE IF str[m] = 47 THEN 95 ELSE str[m]])

\* Number of '=' at the end of str (0, 1 or 2 for an encoding).
PadCount(str) ==
    IF Len(str) >= 2 /\ str[Len(str) - 1] = PadChar THEN 2
    ELSE IF Len(str) >= 1 /\ str[Len(str)] = PadChar THEN 1
    ELSE 0

\* str with the unused low bits of its last data character set to m.
SetTailBits(str, m) ==
    LET last == Len(str) - PadCount(str)
    IN  [str EXCEPT ![last] = EncodeChar(DecodeMap(@) + m)]

TamperKinds == { "bitflip", "newline", "urlsafe", "unpadded", "tailbits" }

\* Number of goroutines that call concurrently.
NumProcs == 2

Procs == 1..NumProcs

CacheKeys == { "a", "b" }

CacheValues == { "v", "w" }

\* No entry for the key: the map read gives (nil, false).
Absent == "absent"

Init ==
    /\ pc = "idle"
    /\ encPlain = None
    /\ encKey = None
    /\ encRand = NoResult
    /\ encOut = NoResult
    /\ randReads = 0
    /\ wire = None
    /\ wireKind = "none"
    /\ wireLen = -1
    /\ decKey = None
    /\ decOut = NoResult
    /\ sealLog = << >>
    /\ gpc = [g \in Procs |-> "idle"]
    /\ garg = [g \in Procs |-> NoResult]
    /\ ggiven = [g \in Procs |-> NoResult]
    /\ grand = [g \in Procs |-> NoResult]
    /\ gbuf = [g \in Procs |-> << >>]
    /\ gtmp = [g \in Procs |-> << >>]
    /\ gres = [g \in Procs |-> NoResult]
    /\ mu = [writer |-> 0, readers |-> {}]
    /\ cdata = [c \in CacheKeys |-> Absent]
    /\ cpc = [g \in Procs |-> "idle"]
    /\ ccall = [g \in Procs |-> NoResult]
    /\ cres = [g \in Procs |-> NoResult]
    /\ latest = [c \in CacheKeys |-> Absent]
    /\ seen = [g \in Procs |-> Absent]

\* The caller calls Encrypt(pt, k); the read of rand.Reader, if Encrypt
\* gets to it, has the outcome rnd.
DoEncrypt(pt, k, rnd) ==
    /\ pc = "idle"
    /\ LET out == Encrypt(pt, k, rnd)
       IN  /\ encOut' = out
           /\ randReads' = randReads + (IF out.read THEN 1 ELSE 0)
           /\ IF out.err = NoErr
                THEN /\ pc' = "ready"
                     /\ wire' = out.str
                     /\ wireKind' = "sealed"
                     /\ wireLen' = Len(DecodeString(out.str).data)
                ELSE /\ pc' = "failed"
                     /\ UNCHANGED << wire, wireKind, wireLen >>
    /\ encPlain' = pt
    /\ encKey' = k
    /\ encRand' = rnd
    /\ UNCHANGED << decKey, decOut, sealLog, goVars, cacheVars >>

\* The envelope is decoded, one bit of it is flipped, and it is encoded
\* again.
FlipBit(m) ==
    /\ pc = "ready"
    /\ wireKind = "sealed"
    /\ m < 8 * wireLen
    /\ wire' = EncodeToString(FlipBitAt(DecodeString(wire).data, m))
    /\ wireKind' = "bitflip"
    /\ UNCHANGED << pc, encPlain, encKey, encRand, encOut, randReads, wireLen,
                    decKey, decOut, sealLog, goVars, cacheVars >>

\* A line break is inserted somewhere in the envelope string.
InsertNewline(m, ch) ==
    /\ pc = "ready"
    /\ wireKind = "sealed"
    /\ m <= Len(wire)
    /\ wire' = InsertAt(wire, m, ch)
    /\ wireKind' = "newline"
    /\ UNCHANGED << pc, encPlain, encKey, encRand, encOut, randReads, wireLen,
                    decKey, decOut, sealLog, goVars, cacheVars >>

\* The envelope string is rewritten in the URL-safe alphabet.
UseURLSafe ==
    /\ pc = "ready"
    /\ wireKind = "sealed"
    /\ ToURLSafe(wire) # wire
    /\ wire' = ToURLSafe(wire)
    /\ wireKind' = "urlsafe"
    /\ UNCHANGED << pc, encPlain, encKey, encRand, encOut, randReads, wireLen,
                    decKey, decOut, sealLog, goVars, cacheVars >>

\* The '=' padding is dropped from the envelope string.
StripPadding ==
    /\ pc = "ready"
    /\ wireKind = "sealed"
    /\ PadCount(wire) > 0
    /\ wire' = SubSeq(wire, 1, Len(wire) - PadCount(wire))
    /\ wireKind' = "unpadded"
    /\ UNCHANGED << pc, encPlain, encKey, encRand, encOut, randReads, wireLen,
                    decKey, decOut, sealLog, goVars, cacheVars >>

\* The bits of the last data character that encode nothing are changed.
ChangeTailBits(m) ==
    /\ pc = "ready"
    /\ wireKind = "sealed"
    /\ PadCount(wire) > 0
    /\ m < 4 ^ PadCount(wire)
    /\ wire' = SetTailBits(wire, m)
    /\ wireKind' = "tailbits"
    /\ UNCHANGED << pc, encPlain, encKey, encRand, encOut, randReads, wireLen,
                    decKey, decOut, sealLog, goVars, cacheVars >>

\* The caller has the encoding of m arbitrary bytes.
RawInput(m) ==
    /\ pc = "idle"
    /\ pc' = "ready"
    /\ wire' = EncodeToString(RawBytes(m))
    /\ wireKind' = "raw"
    /\ wireLen' = m
    /\ UNCHANGED << encPlain, encKey, encRand, encOut, randReads, decKey,
                    decOut, sealLog, goVars, cacheVars >>

\* The caller has a string that is not base64 text: an encoding with a '!'
\* in it.
GarbageInput(m, q) ==
    /\ pc = "idle"
    /\ q <= Len(EncodeToString(RawBytes(m)))
    /\ pc' = "ready"
    /\ wire' = InsertAt(EncodeToString(RawBytes(m)), q, 33)
    /\ wireKind' = "garbage"
    /\ wireLen' = -1
    /\ UNCHANGED << encPlain, encKey, encRand, encOut, randReads, decKey,
                    decOut, sealLog, goVars, cacheVars >>

\* The caller calls Decrypt(wire, k).  An altered envelope is opened with
\* the key that sealed it.
DoDecrypt(k) ==
    /\ pc = "ready"
    /\ wireKind \in TamperKinds => k = encKey
    /\ pc' = "opened"
    /\ decKey' = k
    /\ decOut' = Decrypt(wire, k)
    /\ UNCHANGED << encPlain, encKey, encRand, encOut, randReads, wire,
                    wireKind, wireLen, sealLog, goVars, cacheVars >>

Next ==
    \/ \E pt \in Plaintexts, k \in Keys, rnd \in NonceReads :
            DoEncrypt(pt, k, rnd)
    \/ \E m \in 0..(8 * (NonceSize + Len(Message) + gcmTagSize) - 1) : FlipBit(m)
    \/ \E m \in 0..(4 * (NonceSize + Len(Message) + gcmTagSize)) \div 3 + 4,
          ch \in {LF, CR} : InsertNewline(m, ch)
    \/ UseURLSafe
    \/ StripPadding
    \/ \E m \in 1..15 : ChangeTailBits(m)
    \/ \E m \in 0..MaxRawLen : RawInput(m)
    \/ \E m \in 0..MaxRawLen, q \in 0..(4 * MaxRawLen) \div 3 + 4 :
            GarbageInput(m, q)
    \/ \E k \in Keys : DoDecrypt(k)

Spec == Init /\ [][Next]_vars

\* ------------------------------------------------------------------------
\* Properties of Encrypt and Decrypt (specification Spec)
\* ------------------------------------------------------------------------

Opened == pc = "opened"

\* The caller holds the string Encrypt returned, or one that decodes to the
\* same bytes.
Genuine == wireKind \in { "sealed", "newline", "tailbits" }

\* C1: Decrypt of what Encrypt returned, under the same 32-byte key,
\* returns no error and exactly the plaintext given to Encrypt, whatever
\* the plaintext (the empty one included) and the nonce drawn.
RoundTrip ==
    (Opened /\ wireKind = "sealed" /\ decKey = encKey)
        => decOut = [plaintext |-> encPlain, err |-> NoErr]

RoundTripEmpty ==
    /\ Opened /\ wireKind = "sealed" /\ decKey = encKey
    /\ encPlain = << >>
    /\ encRand.bytes # Zeros(12)
    /\ decOut.err = NoErr

\* C2: when one bit of the decoded envelope is flipped, whichever bit, and
\* the bytes are encoded again, Decrypt under the sealing key fails with
\* "decryption failed" and returns no plaintext.
TamperDetected ==
    (Opened /\ wireKind = "bitflip")
        => decOut = [plaintext |-> NilBytes, err |-> ErrDecrypt]

\* A flip in the last byte of the ciphertext of "hello" was rejected.
TamperedCiphertext ==
    /\ Opened /\ wireKind = "bitflip"
    /\ encPlain = Message
    /\ LET d == DecodeString(wire).data
           e == DecodeString(encOut.str).data
       IN  /\ d[NonceSize + 5] # e[NonceSize + 5]
           /\ \A m \in 1..Len(e) : m # NonceSize + 5 => d[m] = e[m]
    /\ decOut.err = ErrDecrypt

\* C3: with a key whose length is not 32, Encrypt fails with the key-length
\* error without reading rand.Reader, and Decrypt fails with the key-length
\* error whatever the string is (not base64, too short, or an envelope).
KeyLengthFirst ==
    /\ (encOut # NoResult /\ Len(encKey) # 32)
          => /\ pc = "failed"
             /\ encOut.err = ErrKeyLength
             /\ encOut.str = << >>
             /\ randReads = 0
    /\ (Opened /\ Len(decKey) # 32)
          => decOut = [plaintext |-> NilBytes, err |-> ErrKeyLength]

BadKeyOnGarbage ==
    /\ Opened /\ Len(decKey) = 31
    /\ wireKind = "garbage"
    /\ decOut.err = ErrKeyLength

\* C4: with a 32-byte key, Decrypt of a string that is not base64 fails
\* with "base64 decode failed", Decrypt of an encoding of fewer than 12 bytes
\* fails with "ciphertext too short", and Decrypt of an encoding of 12 bytes
\* or more fails with neither.
MalformedInput ==
    (Opened /\ Len(decKey) = 32)
        => /\ wireKind \in { "garbage", "urlsafe", "unpadded" }
                => decOut.err = ErrBase64
           /\ (wireKind = "raw" /\ wireLen < NonceSize)
                => decOut.err = ErrTooShort
           /\ (wireKind \in { "raw", "sealed", "bitflip" } /\ wireLen >= NonceSize)
                => decOut.err \notin { ErrBase64, ErrTooShort }

\* Eleven bytes are too short, and it was said so.
ElevenBytes ==
    /\ Opened /\ Len(decKey) = 32
    /\ wireKind = "raw" /\ wireLen = NonceSize - 1
    /\ decOut.err = ErrTooShort

\* C5: Decrypt returns nil bytes with every error, and it returns no error
\* exactly when the string carries an envelope sealed under the key given to
\* Decrypt; the bytes it then returns are the plaintext that was sealed.
NilOnError ==
    Opened
        => /\ decOut.err # NoErr => decOut.plaintext = NilBytes
           /\ decOut.err = NoErr <=> (Genuine /\ decKey = encKey)
           /\ decOut.err = NoErr => decOut.plaintext = encPlain

\* "hello" sealed under one key and opened under the other.
WrongKeyGivesNil ==
    /\ Opened /\ wireKind = "sealed"
    /\ encPlain = Message
    /\ Len(decKey) = 32 /\ decKey # encKey
    /\ decOut = [plaintext |-> NilBytes, err |-> ErrDecrypt]

\* C7 (as claimed): Decrypt rejects with "base64 decode failed" every string
\* with a URL-safe character or a line break in it and every unpadded one,
\* so it accepts no string other than the one Encrypt returned.
StrictBase64 ==
    (Opened /\ Len(decKey) = 32)
        => /\ wireKind \in { "urlsafe", "newline", "unpadded" }
                => decOut.err = ErrBase64
           /\ (encOut # NoResult /\ decOut.err = NoErr) => wire = encOut.str

\* C7 (amended): Decrypt rejects with "base64 decode failed" a string in
\* the URL-safe alphabet and an unpadded one, but it skips every '\r' and
\* '\n' and ignores the unused bits of the last character before padding:
\* such a string is opened like the envelope it was made from.
LenientBase64 ==
    (Opened /\ decKey = encKey /\ Len(decKey) = 32)
        => /\ wireKind \in { "urlsafe", "unpadded" }
                => decOut = [plaintext |-> NilBytes, err |-> ErrBase64]
           /\ wireKind \in { "newline", "tailbits" }
                => /\ wire # encOut.str
                   /\ DecodeString(wire) = DecodeString(encOut.str)
                   /\ decOut = [plaintext |-> encPlain, err |-> NoErr]

\* An envelope with a '\n' inside a group of four characters was opened.
NewlineAccepted ==
    /\ Opened /\ wireKind = "newline"
    /\ Len(wire) > 2 /\ wire[2] = LF
    /\ decOut = [plaintext |-> encPlain, err |-> NoErr]

\* C8: the string Encrypt returns decodes to the 12-byte nonce drawn
\* followed by bytes that open, under the key and that nonce, to the
\* plaintext; it decodes to 12 + len(plaintext) + 16 bytes and has
\* ceil((12 + len(plaintext) + 16) / 3) * 4 characters, 44 for "hello".
WireFraming ==
    (pc = "ready" /\ wireKind = "sealed")
        => LET dec  == DecodeString(wire)
               size == NonceSize + Len(encPlain) + gcmTagSize
           IN  /\ wire = encOut.str
               /\ ~dec.err
               /\ Len(dec.data) = size
               /\ SubSeq(dec.data, 1, NonceSize) = encRand.bytes
               /\ SubSeq(dec.data, NonceSize + 1, size)
                    = gcmSeal(NewAEAD(encKey), encRand.bytes, encPlain)
               /\ Len(wire) = ((size + 2) \div 3) * 4
               /\ encPlain = Message => Len(wire) = 44

HelloFramed ==
    /\ pc = "ready" /\ wireKind = "sealed"
    /\ encPlain = Message
    /\ Len(wire) = 44

\* ------------------------------------------------------------------------
\* Encrypt called several times in a row (specification SpecSeal)
\* ------------------------------------------------------------------------

\* Number of Encrypt calls in a row.
MaxCalls == 2

SealPlaintexts == { << >>, Message }

SealKeys == { ValidKeys[1], ValidKeys[2], Zeros(16) }

\* One more call of Encrypt(pt, k); rnd is the outcome of its read of
\* rand.Reader, logged if the call reads.
SealCall(pt, k, rnd) ==
    /\ Len(sealLog) < MaxCalls
    /\ LET out == Encrypt(pt, k, rnd)
       IN  /\ sealLog' = Append(sealLog,
                                [plaintext |-> pt, key |-> k,
                                 rnd |-> IF out.read THEN rnd ELSE NoResult,
                                 out |-> out])
           /\ randReads' = randReads + (IF out.read THEN 1 ELSE 0)
    /\ UNCHANGED << encVars, goVars, cacheVars >>

NextSeal ==
    \E pt \in SealPlaintexts, k \in SealKeys, rnd \in NonceReads :
        SealCall(pt, k, rnd)

SpecSeal == Init /\ [][NextSeal]_vars

Sealed(m) == sealLog[m].out.err = NoErr

\* Calls m and q both returned an envelope, for the same key.
SameKeySealed(m, q) ==
    /\ m < q
    /\ Sealed(m) /\ Sealed(q)
    /\ sealLog[m].key = sealLog[q].key

\* C6 (as claimed): no two successful Encrypt calls with the same key use
\* the same nonce, and with the same plaintext too they return different
\* envelopes.
NonceNeverReused ==
    \A m, q \in 1..Len(sealLog) :
        SameKeySealed(m, q)
            => /\ sealLog[m].rnd.bytes # sealLog[q].rnd.bytes
               /\ sealLog[m].plaintext = sealLog[q].plaintext
                    => sealLog[m].out.str # sealLog[q].out.str

\* C6 (amended): every Encrypt call that passes the key check reads
\* rand.Reader once and its envelope starts with the 12 bytes it read; two
\* calls with the same key and plaintext return different envelopes exactly
\* when they read different nonces.
NonceFromReader ==
    /\ randReads = Cardinality({ m \in 1..Len(sealLog) : Len(sealLog[m].key) = 32 })
    /\ \A m \in 1..Len(sealLog) :
          Sealed(m)
             => SubSeq(DecodeString(sealLog[m].out.str).data, 1, NonceSize)
                   = sealLog[m].rnd.bytes
    /\ \A m, q \in 1..Len(sealLog) :
          (SameKeySealed(m, q) /\ sealLog[m].plaintext = sealLog[q].plaintext)
             => (sealLog[m].out.str = sealLog[q].out.str
                    <=> sealLog[m].rnd.bytes = sealLog[q].rnd.bytes)

\* "hello" sealed twice under one key: once with the nonce read the first
\* time, once with another.
NonceDrawnTwice ==
    /\ Len(sealLog) = 2
    /\ SameKeySealed(1, 2)
    /\ sealLog[1].plaintext = Message /\ sealLog[2].plaintext = Message
    /\ sealLog[1].rnd.bytes # sealLog[2].rnd.bytes
    /\ sealLog[1].out.str # sealLog[2].out.str

\* ------------------------------------------------------------------------
\* Concurrent calls of Encrypt, Decrypt and GenerateKey (specification
\* SpecGo).  A goroutine runs one call, a statement or two at a time.
\* ------------------------------------------------------------------------

GoKeys == { ValidKeys[1], Zeros(16) }

\* An envelope of "hello" under ValidKeys[1], and a string that is no base64.
GoStrings == { Encrypt(Message, ValidKeys[1], [ok |-> TRUE, bytes |-> Zeros(12)]).str,
               << 33 >> }

\* The outcomes of io.ReadFull(rand.Reader, key) for a 32-byte key.
KeyReads ==
    { [ok |-> FALSE, bytes |-> << >>], [ok |-> TRUE, bytes |-> ValidKeys[2]] }

\* Every call gets the buffer that make returns to it as its own.
SharedBuf(g) == 1

\* The buffer that make returns to the call of goroutine g (encrypt.go
\* lines 27 and 67): a new one for each call.
MakeBuf(g) == g

Returns(g, res) ==
    /\ gpc' = [gpc EXCEPT ![g] = "done"]
    /\ gres' = [gres EXCEPT ![g] = res]

Goes(g, to) ==
    /\ gpc' = [gpc EXCEPT ![g] = to]
    /\ UNCHANGED gres

CallEncrypt(g, pt, k) ==
    /\ gpc[g] = "idle"
    /\ garg' = [garg EXCEPT ![g] = [op |-> "Encrypt", plaintext |-> pt, key |-> k]]
    /\ ggiven' = [ggiven EXCEPT ![g] = [op |-> "Encrypt", plaintext |-> pt, key |-> k]]
    /\ Goes(g, "enc_key")
    /\ UNCHANGED << encVars, randReads, sealLog, cacheVars, grand, gbuf, gtmp >>

\* Lines 16-26: the key check; the cipher and the GCM are made.
EncCheckKey(g) ==
    /\ gpc[g] = "enc_key"
    /\ IF Len(garg[g].key) # 32
         THEN Returns(g, [str |-> << >>, err |-> ErrKeyLength])
         ELSE Goes(g, "enc_nonce")
    /\ UNCHANGED << encVars, randReads, sealLog, cacheVars, garg, ggiven, grand, gbuf, gtmp >>

\* Lines 27-30: the nonce buffer is made and filled from rand.Reader.
EncReadNonce(g, rnd) ==
    /\ gpc[g] = "enc_nonce"
    /\ grand' = [grand EXCEPT ![g] = rnd]
    /\ randReads' = randReads + 1
    /\ IF rnd.ok
         THEN /\ gbuf' = [gbuf EXCEPT ![MakeBuf(g)] = rnd.bytes]
              /\ Goes(g, "enc_seal")
         ELSE /\ gbuf' = [gbuf EXCEPT ![MakeBuf(g)] = Zeros(NonceSize)]
              /\ Returns(g, [str |-> << >>, err |-> ErrNonce])
    /\ UNCHANGED << encVars, sealLog, cacheVars, garg, ggiven, gtmp >>

\* Line 31: ciphertext := gcm.Seal(nil, nonce, plaintext, nil).
EncSeal(g) ==
    /\ gpc[g] = "enc_seal"
    /\ gtmp' = [gtmp EXCEPT ![g] = gcmSeal(NewAEAD(garg[g].key), gbuf[MakeBuf(g)],
                                           garg[g].plaintext)]
    /\ Goes(g, "enc_ret")
    /\ UNCHANGED << encVars, randReads, sealLog, cacheVars, garg, ggiven, grand, gbuf >>

\* Lines 32-33: the nonce and the ciphertext are joined and encoded.
EncReturn(g) ==
    /\ gpc[g] = "enc_ret"
    /\ Returns(g, [str |-> EncodeToString(gbuf[MakeBuf(g)] \o gtmp[g]), err |-> NoErr])
    /\ UNCHANGED << encVars, randReads, sealLog, cacheVars, garg, ggiven, grand, gbuf, gtmp >>

CallDecrypt(g, str, k) ==
    /\ gpc[g] = "idle"
    /\ garg' = [garg EXCEPT ![g] = [op |-> "Decrypt", str |-> str, key |-> k]]
    /\ ggiven' = [ggiven EXCEPT ![g] = [op |-> "Decrypt", str |-> str, key |-> k]]
    /\ Goes(g, "dec_key")
    /\ UNCHANGED << encVars, randReads, sealLog, cacheVars, grand, gbuf, gtmp >>

\* Lines 38-40.
DecCheckKey(g) ==
    /\ gpc[g] = "dec_key"
    /\ IF Len(garg[g].key) # 32
         THEN Returns(g, [plaintext |-> NilBytes, err |-> ErrKeyLength])
         ELSE Goes(g, "dec_decode")
    /\ UNCHANGED << encVars, randReads, sealLog, cacheVars, garg, ggiven, grand, gbuf, gtmp >>

\* Lines 41-56: the string is decoded, the cipher and the GCM are made, and
\* the length of the data is checked.
DecDecode(g) ==
    /\ gpc[g] = "dec_decode"
    /\ LET dec == DecodeString(garg[g].str)
       IN  /\ gtmp' = [gtmp EXCEPT ![g] = dec.data]
           /\ IF dec.err
                THEN Returns(g, [plaintext |-> NilBytes, err |-> ErrBase64])
              ELSE IF Len(dec.data) < NonceSize
                THEN Returns(g, [plaintext |-> NilBytes, err |-> ErrTooShort])
              ELSE Goes(g, "dec_open")
    /\ UNCHANGED << encVars, randReads, sealLog, cacheVars, garg, ggiven, grand, gbuf >>

\* Lines 57-62: the data is split and opened.
DecOpen(g) ==
    /\ gpc[g] = "dec_open"
    /\ LET data == gtmp[g]
           res  == gcmOpen(NewAEAD(garg[g].key), SubSeq(data, 1, NonceSize),
                           SubSeq(data, NonceSize + 1, Len(data)))
       IN  IF ~res.ok
             THEN Returns(g, [plaintext |-> NilBytes, err |-> ErrDecrypt])
             ELSE Returns(g, [plaintext |-> res.plaintext, err |-> NoErr])
    /\ UNCHANGED << encVars, randReads, sealLog, cacheVars, garg, ggiven, grand, gbuf, gtmp >>

CallGenerateKey(g) ==
    /\ gpc[g] = "idle"
    /\ garg' = [garg EXCEPT ![g] = [op |-> "GenerateKey"]]
    /\ ggiven' = [ggiven EXCEPT ![g] = [op |-> "GenerateKey"]]
    /\ Goes(g, "gen_read")
    /\ UNCHANGED << encVars, randReads, sealLog, cacheVars, grand, gbuf, gtmp >>

\* Lines 67-70: the key buffer is made and filled from rand.Reader.
GenRead(g, rnd) ==
    /\ gpc[g] = "gen_read"
    /\ grand' = [grand EXCEPT ![g] = rnd]
    /\ randReads' = randReads + 1
    /\ IF rnd.ok
         THEN /\ gbuf' = [gbuf EXCEPT ![MakeBuf(g)] = rnd.bytes]
              /\ Goes(g, "gen_ret")
         ELSE /\ gbuf' = [gbuf EXCEPT ![MakeBuf(g)] = Zeros(32)]
              /\ Returns(g, [key |-> NilBytes, err |-> ErrKeyGen])
    /\ UNCHANGED << encVars, sealLog, cacheVars, garg, ggiven, gtmp >>

\* Line 71.
GenReturn(g) ==
    /\ gpc[g] = "gen_ret"
    /\ Returns(g, [key |-> gbuf[MakeBuf(g)], err |-> NoErr])
    /\ UNCHANGED << encVars, randReads, sealLog, cacheVars, garg, ggiven, grand, gbuf, gtmp >>

NextGo ==
    \E g \in Procs :
        \/ \E k \in GoKeys : CallEncrypt(g, Message, k)
        \/ EncCheckKey(g)
        \/ \E rnd \in NonceReads : EncReadNonce(g, rnd)
        \/ EncSeal(g)
        \/ EncReturn(g)
        \/ \E str \in GoStrings, k \in GoKeys : CallDecrypt(g, str, k)
        \/ DecCheckKey(g)
        \/ DecDecode(g)
        \/ DecOpen(g)
        \/ CallGenerateKey(g)
        \/ \E rnd \in KeyReads : GenRead(g, rnd)
        \/ GenReturn(g)

SpecGo == Init /\ [][NextGo]_vars

\* The calls a goroutine makes alone: the arguments, the outcome of the
\* read of rand.Reader if the call reads, and what the call returns.
AloneCalls ==
    { [given |-> [op |-> "Encrypt", plaintext |-> Message, key |-> k],
       rand  |-> rnd,
       res   |-> [str |-> Encrypt(Message, k, rnd).str,
                  err |-> Encrypt(Message, k, rnd).err]] :
         k \in { ValidKeys[1] }, rnd \in NonceReads }
    \cup
    { [given |-> [op |-> "Encrypt", plaintext |-> Message, key |-> k],
       rand  |-> NoResult,
       res   |-> [str |-> Encrypt(Message, k, NoResult).str,
                  err |-> Encrypt(Message, k, NoResult).err]] :
         k \in { Zeros(16) } }
    \cup
    { [given |-> [op |-> "Decrypt", str |-> str, key |-> k],
       rand  |-> NoResult,
       res   |-> Decrypt(str, k)] :
         str \in GoStrings, k \in GoKeys }
    \cup
    { [given |-> [op |-> "GenerateKey"],
       rand  |-> rnd,
       res   |-> GenerateKey(rnd)] :
         rnd \in KeyReads }

\* C9: whatever the interleaving of the concurrent calls, each call
\* returns what it returns when run alone with the same arguments and the
\* same random bytes, and the arguments of every call are as they were
\* passed.
CallsIndependent ==
    \A g \in Procs :
        /\ gpc[g] # "idle" => garg[g] = ggiven[g]
        /\ gpc[g] = "done"
              => [given |-> ggiven[g], rand |-> grand[g], res |-> gres[g]]
                    \in AloneCalls

\* Two Encrypt calls that overlapped and read different nonces have both
\* returned.
OverlappingEncrypts ==
    /\ gpc[1] = "done" /\ gpc[2] = "done"
    /\ ggiven[1].op = "Encrypt" /\ ggiven[2].op = "Encrypt"
    /\ gres[1].err = NoErr /\ gres[2].err = NoErr
    /\ grand[1] # grand[2]
    /\ gbuf[1] # gbuf[2]

\* ------------------------------------------------------------------------
\* cache/cache.go: concurrent Get and Set on one MemoryCache (specification
\* SpecCache).  A goroutine makes one call after the other.
\* ------------------------------------------------------------------------

\* A Lock that waits for the writer only, as RLock does.
LockLikeRLock == mu.writer = 0

\* c.mu.Lock() returns when no goroutine holds the lock, for writing or
\* for reading.
CanLock == mu.writer = 0 /\ mu.readers = {}

\* c.mu.RLock() returns when no goroutine holds the lock for writing.
CanRLock == mu.writer = 0

CacheCalls(g, call, to) ==
    /\ cpc[g] \in { "idle", "done" }
    /\ cpc' = [cpc EXCEPT ![g] = to]
    /\ ccall' = [ccall EXCEPT ![g] = call]
    /\ cres' = [cres EXCEPT ![g] = NoResult]
    /\ seen' = [seen EXCEPT ![g] = Absent]
    /\ UNCHANGED << mu, cdata, latest >>

CallGet(g, c) ==
    /\ CacheCalls(g, [op |-> "Get", key |-> c], "get_rlock")
    /\ UNCHANGED << encVars, randReads, sealLog, goVars >>

\* Line 15.
GetRLock(g) ==
    /\ cpc[g] = "get_rlock"
    /\ CanRLock
    /\ mu' = [mu EXCEPT !.readers = @ \cup {g}]
    /\ seen' = [seen EXCEPT ![g] = latest[ccall[g].key]]
    /\ cpc' = [cpc EXCEPT ![g] = "get_read"]
    /\ UNCHANGED << encVars, randReads, sealLog, goVars, cdata, ccall, cres, latest >>

\* Line 17: val, ok := c.data[key].
GetRead(g) ==
    /\ cpc[g] = "get_read"
    /\ cres' = [cres EXCEPT ![g] =
                  IF cdata[ccall[g].key] = Absent
                    THEN [val |-> "nil", ok |-> FALSE]
                    ELSE [val |-> cdata[ccall[g].key], ok |-> TRUE]]
    /\ cpc' = [cpc EXCEPT ![g] = "get_runlock"]
    /\ UNCHANGED << encVars, randReads, sealLog, goVars, mu, cdata, ccall, latest, seen >>

\* Lines 16 and 18: the deferred RUnlock runs and Get returns.
GetRUnlock(g) ==
    /\ cpc[g] = "get_runlock"
    /\ mu' = [mu EXCEPT !.readers = @ \ {g}]
    /\ cpc' = [cpc EXCEPT ![g] = "done"]
    /\ UNCHANGED << encVars, randReads, sealLog, goVars, cdata, ccall, cres, latest, seen >>

CallSet(g, c, val) ==
    /\ CacheCalls(g, [op |-> "Set", key |-> c, value |-> val], "set_lock")
    /\ UNCHANGED << encVars, randReads, sealLog, goVars >>

\* Line 22.
SetLock(g) ==
    /\ cpc[g] = "set_lock"
    /\ CanLock
    /\ mu' = [mu EXCEPT !.writer = g]
    /\ latest' = [latest EXCEPT ![ccall[g].key] = ccall[g].value]
    /\ cpc' = [cpc EXCEPT ![g] = "set_write"]
    /\ UNCHANGED << encVars, randReads, sealLog, goVars, cdata, ccall, cres, seen >>

\* Line 24: c.data[key] = value.
SetWrite(g) ==
    /\ cpc[g] = "set_write"
    /\ cdata' = [cdata EXCEPT ![ccall[g].key] = ccall[g].value]
    /\ cpc' = [cpc EXCEPT ![g] = "set_unlock"]
    /\ UNCHANGED << encVars, randReads, sealLog, goVars, mu, ccall, cres, latest, seen >>

\* Lines 23 and 25: the deferred Unlock runs and Set returns.
SetUnlock(g) ==
    /\ cpc[g] = "set_unlock"
    /\ mu' = [mu EXCEPT !.writer = 0]
    /\ cpc' = [cpc EXCEPT ![g] = "done"]
    /\ UNCHANGED << encVars, randReads, sealLog, goVars, cdata, ccall, cres, latest, seen >>

NextCache ==
    \E g \in Procs :
        \/ \E c \in CacheKeys : CallGet(g, c)
        \/ GetRLock(g)
        \/ GetRead(g)
        \/ GetRUnlock(g)
        \/ \E c \in CacheKeys, val \in CacheValues : CallSet(g, c, val)
        \/ SetLock(g)
        \/ SetWrite(g)
        \/ SetUnlock(g)

SpecCache == Init /\ [][NextCache]_vars

\* The goroutines between Lock and Unlock, and between RLock and RUnlock.
Writing == { g \in Procs : cpc[g] \in { "set_write", "set_unlock" } }

Reading == { g \in Procs : cpc[g] \in { "get_read", "get_runlock" } }

\* C10: a goroutine between Lock and Unlock excludes every reader and every
\* other writer; a Get(k) that returned gave (v, true) for v the value of
\* the last Set(k, v) that took the lock before the Get did, or (nil, false)
\* when there was none; and the map holds, for every key no Set is writing,
\* the value of the last Set of that key that took the lock, so that a Set
\* changes no other key and no entry goes away.
CacheLinearizable ==
    /\ Cardinality(Writing) <= 1
    /\ Writing # {} => Reading = {}
    /\ \A g \in Procs :
          (cpc[g] = "done" /\ ccall[g].op = "Get")
             => cres[g] = IF seen[g] = Absent
                            THEN [val |-> "nil", ok |-> FALSE]
                            ELSE [val |-> seen[g], ok |-> TRUE]
    /\ \A c \in CacheKeys :
          (\A g \in Procs : ~(cpc[g] = "set_write" /\ ccall[g].key = c))
             => cdata[c] = latest[c]

\* A Get returned the value of one Set, and a later Set of another value
\* for the same key holds the lock, the other key keeping its entry.
GetBetweenSets ==
    /\ cpc[1] = "done" /\ ccall[1].op = "Get"
    /\ cres[1].ok
    /\ cpc[2] = "set_write"
    /\ ccall[2].key = ccall[1].key
    /\ ccall[2].value # cres[1].val
    /\ \A c \in CacheKeys : cdata[c] # Absent

====
